---- MODULE Spec2Model ----
(***************************************************************************)
(* A model of irrelevant.Irrelevant (src/irrelevant/irrelevant.py): the    *)
(* constructor, fit, judge, and the state they share (the category list    *)
(* __classes and the keyword table __keywords_).                           *)
(*                                                                         *)
(* A word is a sequence of characters, a text a sequence of words (the raw *)
(* string is the words joined by one blank).  Floats are modelled as exact *)
(* fractions <<numerator, denominator>> with a positive denominator.       *)
(***************************************************************************)
EXTENDS Integers, Sequences, FiniteSets, TLC

VARIABLES
  cfg,        \* the thresholds and list sizes fixed by the constructor
  classes,    \* self.__classes
  keywords_,  \* self.__keywords_
  call,       \* the call that has just returned or raised, until its caller goes on
  trained,    \* whether keyword sets were ever supplied: by a non-empty
              \* initial_keywords, or by a fit that returned
  fitter,     \* a thread inside fit, line by line
  judger      \* a thread inside judge, line by line

vars == <<cfg, classes, keywords_, call, trained, fitter, judger>>

\* ---------------------------------------------------------------- bounds

\* Longest corpus / label list handed to fit in the life of a model (Spec).
MaxDocs == 2
\* Longest corpus / label list handed to judge.
MaxJudgeDocs == 1
\* Longest corpus handed to the one fit of a fresh model (SpecFit).
MaxFitDocs == 3

\* ------------------------------------------------------- program constants

\* int(1e9), the value ratio and ratio_inverse take instead of a division by zero.
Sentinel == 1000000000

DefaultNRelevant == 50

DefaultNClash == 30

\* ------------------------------------------------------------ input sets

Labels == {"x", "y", "z"}

\* "a" is too short to be a token, "Ab" lowercases to "ab", an infix of "aba".
Words == {<<"a">>, <<"A", "b">>, <<"a", "b", "a">>}

KwWords == {<<"a", "b">>, <<"a", "b", "a">>}

SeqsUpTo(S, n) == UNION {[1..k -> S] : k \in 0..n}

\* The texts: the one-word strings "a", "Ab" and "aba".
Texts == {<<w>> : w \in Words}

\* The relevant and the clash lists initial_keywords gives a category.
KwLists == {<<>>} \cup {<<w>> : w \in KwWords}

\* The arguments of the constructor: its defaults; a loose setting under which
\* a token can pass the relevant test and the clash thresholds at once and the
\* lists are cut to one keyword; and a setting whose thresholds the counts of a
\* small corpus meet exactly.
Configs ==
  { [relevant_dominance |-> <<4, 1>>, relevant_tf |-> <<1, 1000>>,
     clash_dominance |-> <<10, 1>>, clash_tf |-> <<1, 200>>,
     maximum_clash_in_relevant |-> <<1, 20>>,
     n_relevant |-> DefaultNRelevant, n_clash |-> DefaultNClash],
    [relevant_dominance |-> <<1, 2>>, relevant_tf |-> <<1, 2>>,
     clash_dominance |-> <<1, 2>>, clash_tf |-> <<1, 2>>,
     maximum_clash_in_relevant |-> <<2, 1>>,
     n_relevant |-> 1, n_clash |-> 1],
    [relevant_dominance |-> <<1, 1>>, relevant_tf |-> <<1, 2>>,
     clash_dominance |-> <<1, 1>>, clash_tf |-> <<1, 2>>,
     maximum_clash_in_relevant |-> <<1, 1>>,
     n_relevant |-> DefaultNRelevant, n_clash |-> DefaultNClash] }

\* initial_keywords: None, or a dict given as its items in order.
InitialKeywords ==
  {[none |-> TRUE, items |-> <<>>], [none |-> FALSE, items |-> <<>>]}
  \cup {[none |-> FALSE, items |-> <<[key |-> "x", relevant |-> r, clash |-> c]>>] :
          r \in KwLists, c \in KwLists}

\* ------------------------------------------------------------- helpers

Range(s) == {s[i] : i \in 1..Len(s)}

Min(a, b) == IF a < b THEN a ELSE b

\* Orderings of a finite set.
Perms(S) == {s \in [1..Cardinality(S) -> S] : Range(s) = S}

\* a > b for fractions a, b >= 0 (whole parts first, so that Sentinel never
\* meets a multiplication).
RatGT(a, b) ==
  LET qa == a[1] \div a[2]
      qb == b[1] \div b[2]
  IN IF qa # qb THEN qa > qb
     ELSE (a[1] % a[2]) * b[2] > (b[1] % b[2]) * a[2]

\* str.lower
Lower(ch) == IF ch = "A" THEN "a" ELSE ch

RECURSIVE LowerWord(_)
LowerWord(w) ==
  IF Len(w) = 0 THEN <<>> ELSE <<Lower(w[1])>> \o LowerWord(Tail(w))

\* The string of a text: its words, one space between two.
RECURSIVE JoinWords(_)
JoinWords(text) ==
  IF Len(text) = 0 THEN <<>>
  ELSE IF Len(text) = 1 THEN text[1]
  ELSE text[1] \o <<" ">> \o JoinWords(Tail(text))

\* str(corpus[i]).lower(): the raw lowercased string, as its characters.
RawLower(text) == LowerWord(JoinWords(text))

\* CountVectorizer's analyzer: lowercase, then the words of two or more characters.
Analyze(text) == {LowerWord(text[i]) : i \in {j \in 1..Len(text) : Len(text[j]) >= 2}}

\* re.search of a literal: an occurrence of pat anywhere in s (the empty
\* pattern occurs at position 0 of every string).
IsSubstring(pat, s) ==
  \E i \in 1..(Len(s) - Len(pat) + 1) : SubSeq(s, i, i + Len(pat) - 1) = pat

\* The alternatives of "|".join(list(relevant_keywords)): the keywords, and for
\* no keyword at all the empty string, a pattern of one empty alternative.
RelevantPattern(relevant_keywords) ==
  IF relevant_keywords = {} THEN {<<>>} ELSE relevant_keywords

ReSearch(pattern, s) == \E alt \in pattern : IsSubstring(alt, s)

\* ------------------------------------------------------------------ fit

\* set(y)
LabelSet(y) == Range(y)

\* The documents itertools.compress keeps: those labelled current_class ...
ThisGroup(y, current_class) == {i \in 1..Len(y) : y[i] = current_class}

\* ... and those labelled otherwise.
OtherGroups(y, current_class) == {i \in 1..Len(y) : y[i] # current_class}

\* The rows of the binary document-term matrices: the tokens of each document
\* (every vectorizer tokenizes alike, so the rows are the same for every class).
RECURSIVE Tokens(_)
Tokens(corpus) ==
  IF Len(corpus) = 0 THEN <<>> ELSE <<Analyze(corpus[1])>> \o Tokens(Tail(corpus))

\* feature_set[cat]: the vocabulary CountVectorizer builds from a group.
FeatureSet(docs, group) == UNION {docs[i] : i \in group}

\* CountVectorizer.fit_transform raises ValueError (empty vocabulary) for a
\* group with no token at all, an empty group included.
EmptyVocabulary(docs, y, current_class) ==
  \/ FeatureSet(docs, ThisGroup(y, current_class)) = {}
  \/ FeatureSet(docs, OtherGroups(y, current_class)) = {}

\* score[cat]: with binary=True, the number of the group's documents that hold
\* the feature, 0 for a feature the group's vocabulary lacks.
Score(docs, group, feature) == Cardinality({i \in group : feature \in docs[i]})

\* ratio, with normalizer = nIn / nOut.
Ratio(inCount, outCount, nIn, nOut) ==
  IF outCount # 0 THEN <<inCount * nOut, outCount * nIn>> ELSE <<Sentinel, 1>>

RatioInverse(ratio) ==
  IF ratio[1] # 0 THEN <<ratio[2], ratio[1]>> ELSE <<Sentinel, 1>>

\* IsRelevant with the frequency test strict (> for >=).
IsRelevantStrictTf(c, inCount, outCount, nIn, nOut) ==
  /\ RatGT(Ratio(inCount, outCount, nIn, nOut), c.relevant_dominance)
  /\ inCount * c.relevant_tf[2] > c.relevant_tf[1] * nIn

\* The if of the classification.
IsRelevant(c, inCount, outCount, nIn, nOut) ==
  /\ RatGT(Ratio(inCount, outCount, nIn, nOut), c.relevant_dominance)
  /\ inCount * c.relevant_tf[2] >= c.relevant_tf[1] * nIn

\* IsClash as a second if (the elif's "else" lost).
IsClashIf(c, inCount, outCount, nIn, nOut) ==
  /\ RatGT(RatioInverse(Ratio(inCount, outCount, nIn, nOut)), c.clash_dominance)
  /\ outCount * c.clash_tf[2] >= c.clash_tf[1] * nOut
  /\ inCount * c.maximum_clash_in_relevant[2] < c.maximum_clash_in_relevant[1] * nIn

\* The elif of the classification.
IsClash(c, inCount, outCount, nIn, nOut) ==
  /\ ~IsRelevant(c, inCount, outCount, nIn, nOut)
  /\ RatGT(RatioInverse(Ratio(inCount, outCount, nIn, nOut)), c.clash_dominance)
  /\ outCount * c.clash_tf[2] >= c.clash_tf[1] * nOut
  /\ inCount * c.maximum_clash_in_relevant[2] < c.maximum_clash_in_relevant[1] * nIn

\* keywords[key] of one class: the features classified key, each with its score
\* (float(score[relevant]) for relevant, ratio_inverse for clash), a dict as
\* the set of its items.
Keywords(c, docs, y, current_class) ==
  LET this == ThisGroup(y, current_class)
      other == OtherGroups(y, current_class)
      nIn == Cardinality(this)
      nOut == Cardinality(other)
      all_feature_set == FeatureSet(docs, this) \cup FeatureSet(docs, other)
  IN [relevant |->
        {<<f, <<Score(docs, this, f), 1>>>> :
           f \in {g \in all_feature_set :
                    IsRelevant(c, Score(docs, this, g), Score(docs, other, g), nIn, nOut)}},
      clash |->
        {<<f, RatioInverse(Ratio(Score(docs, this, f), Score(docs, other, f), nIn, nOut))>> :
           f \in {g \in all_feature_set :
                    IsClash(c, Score(docs, this, g), Score(docs, other, g), nIn, nOut)}}]

\* scores[key], for a dict given as the set of its items.
Value(scores, key) == (CHOOSE item \in scores : item[1] = key)[2]

\* np.flip(np.argsort(values)) and the cut to n: the keys by descending score,
\* keys of equal score in any order (the dict's order is a set's iteration
\* order), the first n kept.
TopKeywords(scores, n) ==
  LET keys == {item[1] : item \in scores}
  IN {SubSeq(s, 1, Min(n, Len(s))) :
        s \in {p \in Perms(keys) :
                 \A i \in 1..Len(p) : \A j \in (i + 1)..Len(p) :
                    ~RatGT(Value(scores, p[j]), Value(scores, p[i]))}}

\* The values sorted_keywords can take for one class.
SortedKeywords(c, docs, y, current_class) ==
  LET keywords == Keywords(c, docs, y, current_class)
  IN {[relevant |-> r, clash |-> k] :
        r \in TopKeywords(keywords.relevant, c.n_relevant),
        k \in TopKeywords(keywords.clash, c.n_clash)}

\* The loop over self.__classes from its k-th class on: what is appended to
\* self.__keywords_, and whether the loop ran to its end (ok) or a vectorizer
\* raised.
RECURSIVE FitClasses(_, _, _, _, _)
FitClasses(c, docs, y, order, k) ==
  IF k > Len(order) THEN {[kws |-> <<>>, ok |-> TRUE]}
  ELSE IF EmptyVocabulary(docs, y, order[k]) THEN {[kws |-> <<>>, ok |-> FALSE]}
  ELSE {[kws |-> <<sk>> \o rest.kws, ok |-> rest.ok] :
          sk \in SortedKeywords(c, docs, y, order[k]),
          rest \in FitClasses(c, docs, y, order, k + 1)}

\* What the statements of fit from self.__classes = list(set(y)) on can leave:
\* the classes in one of list(set(y))'s orders, the keyword sets appended, and
\* whether the loop ran to its end.
FitOutcomes(c, corpus, y) ==
  LET docs == Tokens(corpus)
  IN UNION {{[classes |-> order, kws |-> o.kws, ok |-> o.ok] :
               o \in FitClasses(c, docs, y, order, 1)} : order \in Perms(LabelSet(y))}

\* ---------------------------------------------------------------- judge

\* label_to_index[label]
LabelToIndex(cls, label) ==
  CHOOSE i \in 1..Len(cls) : cls[i] = label /\ \A j \in (i + 1)..Len(cls) : cls[j] # label

\* One pass of the loop over the corpus.
JudgeItem(keywords_in_label, text) ==
  LET relevant_keywords == Range(keywords_in_label.relevant)
      clash_keywords == Range(keywords_in_label.clash)
      tokens == Analyze(text)
  IN IF /\ tokens \cap clash_keywords # {}
        /\ ~ReSearch(RelevantPattern(relevant_keywords), RawLower(text))
     THEN tokens \cap clash_keywords
     ELSE {}

\* JudgeError with the length check moved to the top.
JudgeErrorLengthFirst(cls, kws, corpus, y) ==
  IF Len(corpus) # Len(y) THEN "InvalidInput"
  ELSE IF Len(cls) = 0 THEN "UntrainedModel"
  ELSE IF LabelSet(y) \ Range(cls) # {} THEN "UnrecognizedLabel"
  ELSE IF \E i \in 1..Len(corpus) : LabelToIndex(cls, y[i]) > Len(kws) THEN "IndexError"
  ELSE "none"

\* The error judge raises, by the place that raises it, or "none".
JudgeError(cls, kws, corpus, y) ==
  IF Len(cls) = 0 THEN "UntrainedModel"
  ELSE IF LabelSet(y) \ Range(cls) # {} THEN "UnrecognizedLabel"
  ELSE IF Len(corpus) # Len(y) THEN "InvalidInput"
  ELSE IF \E i \in 1..Len(corpus) : LabelToIndex(cls, y[i]) > Len(kws) THEN "IndexError"
  ELSE "none"

\* The loop over the corpus: result, one pass appended after the other.
RECURSIVE JudgeResult(_, _, _, _)
JudgeResult(cls, kws, corpus, y) ==
  IF Len(corpus) = 0 THEN <<>>
  ELSE <<JudgeItem(kws[LabelToIndex(cls, y[1])], corpus[1])>>
         \o JudgeResult(cls, kws, Tail(corpus), Tail(y))

\* ------------------------------------------------------ the sequential model

\* No thread is inside fit, none inside judge.
FitterIdle == [pc |-> "idle", corpus |-> <<>>, y |-> <<>>, k |-> 0, before |-> <<>>]

JudgerIdle ==
  [pc |-> "idle", corpus |-> <<>>, y |-> <<>>, index |-> <<>>, i |-> 0,
   result |-> <<>>, error |-> "none"]

NoCall ==
  [op |-> "none", corpus |-> <<>>, y |-> <<>>, known |-> {}, error |-> "none",
   result |-> <<>>]

\* The record of a call: its arguments, the labels known when it was made, the
\* error it raised ("none": it returned) and what it returned.
Called(op, corpus, y, error, result) ==
  [op |-> op, corpus |-> corpus, y |-> y, known |-> Range(classes), error |-> error,
   result |-> result]

\* __init__
Init ==
  /\ cfg \in Configs
  /\ \E initial_keywords \in InitialKeywords :
       IF initial_keywords.none
       THEN classes = <<>> /\ keywords_ = <<>> /\ trained = FALSE
       ELSE LET items == initial_keywords.items
            IN /\ classes = [i \in 1..Len(items) |-> items[i].key]
               /\ keywords_ = [i \in 1..Len(items) |->
                                  [relevant |-> items[i].relevant,
                                   clash |-> items[i].clash]]
               /\ trained = (Len(items) > 0)
  /\ call = NoCall
  /\ fitter = FitterIdle
  /\ judger = JudgerIdle

\* FitUneven with the length check after the two resets.
FitUnevenAfterReset(corpus, y) ==
  /\ call' = Called("fit", corpus, y, "InvalidInput", <<>>)
  /\ classes' = <<>>
  /\ keywords_' = <<>>
  /\ UNCHANGED trained

\* fit, when len(corpus) != len(y): the raise before anything is written.
FitUneven(corpus, y) ==
  /\ call' = Called("fit", corpus, y, "InvalidInput", <<>>)
  /\ UNCHANGED <<classes, keywords_, trained>>

\* FitTrain without the reset of self.__keywords_.
FitTrainNoReset(corpus, y) ==
  \E o \in FitOutcomes(cfg, corpus, y) :
    /\ classes' = o.classes
    /\ keywords_' = keywords_ \o o.kws
    /\ trained' = (trained \/ o.ok)
    /\ call' = Called("fit", corpus, y,
                      IF o.ok THEN "none" ELSE "EmptyVocabulary", <<>>)

\* fit, from the two resets on: the classes in the order of list(set(y)), then
\* one keyword set appended per class until the loop ends or a vectorizer raises.
FitTrain(corpus, y) ==
  \E o \in FitOutcomes(cfg, corpus, y) :
    /\ classes' = o.classes
    /\ keywords_' = o.kws
    /\ trained' = (trained \/ o.ok)
    /\ call' = Called("fit", corpus, y,
                      IF o.ok THEN "none" ELSE "EmptyVocabulary", <<>>)

\* fit(corpus, y), as one call.
Fit(corpus, y) ==
  /\ call = NoCall
  /\ IF Len(corpus) # Len(y) THEN FitUneven(corpus, y) ELSE FitTrain(corpus, y)
  /\ UNCHANGED <<cfg, fitter, judger>>

\* judge(corpus, y), as one call.
Judge(corpus, y) ==
  /\ call = NoCall
  /\ LET error == JudgeError(classes, keywords_, corpus, y)
     IN call' = Called("judge", corpus, y, error,
                       IF error = "none"
                       THEN JudgeResult(classes, keywords_, corpus, y)
                       ELSE <<>>)
  /\ UNCHANGED <<cfg, classes, keywords_, trained, fitter, judger>>

\* The caller goes on to its next statement.
Return ==
  /\ call # NoCall
  /\ call' = NoCall
  /\ UNCHANGED <<cfg, classes, keywords_, trained, fitter, judger>>

\* The arguments of the calls.
FitCorpora == SeqsUpTo(Texts, MaxDocs)

FitLabels == SeqsUpTo(Labels, MaxDocs)

JudgeCorpora == SeqsUpTo(Texts, MaxJudgeDocs)

JudgeLabels == SeqsUpTo(Labels, MaxJudgeDocs)

\* A caller makes one call after another (the arguments are only drawn when
\* no call is pending).
Next ==
  \/ /\ call = NoCall
     /\ \E corpus \in FitCorpora, y \in FitLabels : Fit(corpus, y)
  \/ /\ call = NoCall
     /\ \E corpus \in JudgeCorpora, y \in JudgeLabels : Judge(corpus, y)
  \/ Return

Spec == Init /\ [][Next]_vars

\* ------------------------------------------- one fit of a fresh model

\* Irrelevant(...) without initial_keywords.
InitFit ==
  /\ cfg \in Configs
  /\ classes = <<>>
  /\ keywords_ = <<>>
  /\ trained = FALSE
  /\ call = NoCall
  /\ fitter = FitterIdle
  /\ judger = JudgerIdle

NextFit ==
  /\ call = NoCall
  /\ \E corpus \in SeqsUpTo(Texts, MaxFitDocs) :
       \E y \in [1..Len(corpus) -> Labels] : Fit(corpus, y)

SpecFit == InitFit /\ [][NextFit]_vars

\* ------------------------------------- fit and judge on two threads

\* The model under two threads, one calling fit and one calling judge, each a
\* line of the source at a time (a step is one read or one write of
\* self.__classes or self.__keywords_).  fitter.before is the state fit found.

ConcTexts == {<<<<"a", "b">>>>, <<<<"a", "b", "a">>>>}

ConcLabels == {"x", "y"}

\* fit is called: the length check of line 96.
FitEnter(corpus, y) ==
  /\ fitter.pc = "idle"
  /\ fitter' = [pc |-> IF Len(corpus) # Len(y) THEN "raised" ELSE "l99",
                corpus |-> corpus, y |-> y, k |-> 0,
                before |-> <<classes, keywords_>>]
  /\ UNCHANGED <<cfg, classes, keywords_, call, trained, judger>>

\* self.__keywords_ = []
FitResetKeywords ==
  /\ fitter.pc = "l99"
  /\ keywords_' = <<>>
  /\ fitter' = [fitter EXCEPT !.pc = "l100"]
  /\ UNCHANGED <<cfg, classes, call, trained, judger>>

\* self.__classes = []
FitResetClasses ==
  /\ fitter.pc = "l100"
  /\ classes' = <<>>
  /\ fitter' = [fitter EXCEPT !.pc = "l106"]
  /\ UNCHANGED <<cfg, keywords_, call, trained, judger>>

\* self.__classes = list(set(y))
FitSetClasses ==
  /\ fitter.pc = "l106"
  /\ \E order \in Perms(LabelSet(fitter.y)) : classes' = order
  /\ fitter' = [fitter EXCEPT !.pc = "l107", !.k = 1]
  /\ UNCHANGED <<cfg, keywords_, call, trained, judger>>

\* One pass of the loop over the classes, up to its append; or the loop's end.
FitClass ==
  /\ fitter.pc = "l107"
  /\ IF fitter.k > Len(classes)
     THEN /\ fitter' = [fitter EXCEPT !.pc = "returned"]
          /\ trained' = TRUE
          /\ UNCHANGED keywords_
     ELSE IF EmptyVocabulary(Tokens(fitter.corpus), fitter.y, classes[fitter.k])
     THEN /\ fitter' = [fitter EXCEPT !.pc = "raised"]
          /\ UNCHANGED <<keywords_, trained>>
     ELSE /\ \E sk \in SortedKeywords(cfg, Tokens(fitter.corpus), fitter.y,
                                       classes[fitter.k]) :
               keywords_' = Append(keywords_, sk)
          /\ fitter' = [fitter EXCEPT !.k = fitter.k + 1]
          /\ UNCHANGED trained
  /\ UNCHANGED <<cfg, classes, call, judger>>

\* fit has returned or raised; its thread is free for the next call.
FitLeave ==
  /\ fitter.pc \in {"returned", "raised"}
  /\ fitter' = FitterIdle
  /\ UNCHANGED <<cfg, classes, keywords_, call, trained, judger>>

\* judge is called.
JudgeEnter(corpus, y) ==
  /\ judger.pc = "idle"
  /\ judger' = [JudgerIdle EXCEPT !.pc = "l202", !.corpus = corpus, !.y = y]
  /\ UNCHANGED <<cfg, classes, keywords_, call, trained, fitter>>

\* if len(self.__classes) == 0
JudgeCheckTrained ==
  /\ judger.pc = "l202"
  /\ judger' = IF Len(classes) = 0
               THEN [judger EXCEPT !.pc = "raised", !.error = "UntrainedModel"]
               ELSE [judger EXCEPT !.pc = "l205"]
  /\ UNCHANGED <<cfg, classes, keywords_, call, trained, fitter>>

\* unrecognized_label = classes - set(self.__classes)
JudgeCheckLabels ==
  /\ judger.pc = "l205"
  /\ judger' = IF LabelSet(judger.y) \ Range(classes) # {}
               THEN [judger EXCEPT !.pc = "raised", !.error = "UnrecognizedLabel"]
               ELSE [judger EXCEPT !.pc = "l209"]
  /\ UNCHANGED <<cfg, classes, keywords_, call, trained, fitter>>

\* if len(corpus) != len(y)
JudgeCheckLength ==
  /\ judger.pc = "l209"
  /\ judger' = IF Len(judger.corpus) # Len(judger.y)
               THEN [judger EXCEPT !.pc = "raised", !.error = "InvalidInput"]
               ELSE [judger EXCEPT !.pc = "l213"]
  /\ UNCHANGED <<cfg, classes, keywords_, call, trained, fitter>>

\* label_to_index = {label: i for i, label in enumerate(self.__classes)}
JudgeIndex ==
  /\ judger.pc = "l213"
  /\ judger' = [judger EXCEPT !.pc = "l215", !.index = classes, !.i = 1]
  /\ UNCHANGED <<cfg, classes, keywords_, call, trained, fitter>>

\* One pass of the loop over the corpus, or its end.
JudgeLoop ==
  /\ judger.pc = "l215"
  /\ judger' =
       IF judger.i > Len(judger.corpus) THEN [judger EXCEPT !.pc = "returned"]
       ELSE IF judger.y[judger.i] \notin Range(judger.index)
       THEN [judger EXCEPT !.pc = "raised", !.error = "KeyError"]
       ELSE IF LabelToIndex(judger.index, judger.y[judger.i]) > Len(keywords_)
       THEN [judger EXCEPT !.pc = "raised", !.error = "IndexError"]
       ELSE [judger EXCEPT
               !.i = judger.i + 1,
               !.result = Append(judger.result,
                            JudgeItem(keywords_[LabelToIndex(judger.index,
                                                             judger.y[judger.i])],
                                      judger.corpus[judger.i]))]
  /\ UNCHANGED <<cfg, classes, keywords_, call, trained, fitter>>

\* judge has returned or raised.
JudgeLeave ==
  /\ judger.pc \in {"returned", "raised"}
  /\ judger' = JudgerIdle
  /\ UNCHANGED <<cfg, classes, keywords_, call, trained, fitter>>

NextConc ==
  \/ /\ fitter.pc = "idle"
     /\ \E corpus \in SeqsUpTo(ConcTexts, MaxDocs), y \in SeqsUpTo(ConcLabels, MaxDocs) :
          FitEnter(corpus, y)
  \/ FitResetKeywords
  \/ FitResetClasses
  \/ FitSetClasses
  \/ FitClass
  \/ FitLeave
  \/ /\ judger.pc = "idle"
     /\ \E corpus \in SeqsUpTo(ConcTexts, MaxJudgeDocs),
           y \in SeqsUpTo(ConcLabels, MaxJudgeDocs) :
          JudgeEnter(corpus, y)
  \/ JudgeCheckTrained
  \/ JudgeCheckLabels
  \/ JudgeCheckLength
  \/ JudgeIndex
  \/ JudgeLoop
  \/ JudgeLeave

SpecConc == Init /\ [][NextConc]_vars

\* ---------------------------------------------------------------- claims

\* The last call was a fit, and it returned.
FitReturned == call.op = "fit" /\ call.error = "none"

\* A call has just been made (the step from no call to its record).
Calls(op) == call = NoCall /\ call'.op = op

\* C1: a fit with len(corpus) # len(labels) raises InvalidInput and leaves the
\* category list and every keyword list as they were, whatever the state before.
C1_UnevenFitKeepsState ==
  [][(Calls("fit") /\ Len(call'.corpus) # Len(call'.y))
       => (call'.error = "InvalidInput" /\ classes' = classes /\ keywords_' = keywords_)]_vars

\* C1's case: an uneven fit has raised on a model that two categories were
\* learnt for, and both keyword sets are still there.
C1_Witness ==
  /\ call.op = "fit"
  /\ Len(call.corpus) # Len(call.y)
  /\ call.error = "InvalidInput"
  /\ Len(classes) = 2
  /\ Len(keywords_) = 2
  /\ \E k \in 1..2 : keywords_[k].relevant # <<>>

\* C2: every fit that fails, for whatever reason, on a model that was given
\* keyword sets leaves the category list and the keyword sets as they were
\* before the call.
C2_FailedFitKeepsState ==
  [][(Calls("fit") /\ trained /\ call'.error # "none")
       => (classes' = classes /\ keywords_' = keywords_)]_vars

\* What C3 says item i of a judge call returns: the tokens that are clash
\* keywords, unless there is none or a relevant keyword occurs in the raw text.
C3_Expected(keywords_in_label, text) ==
  LET clash_matches == Analyze(text) \cap Range(keywords_in_label.clash)
      relevant_present ==
        \E kw \in Range(keywords_in_label.relevant) : IsSubstring(kw, RawLower(text))
  IN IF clash_matches # {} /\ ~relevant_present THEN clash_matches ELSE {}

\* C3: every item of a judge call that returns gets the whole-token clash
\* matches when there is one and no relevant keyword is an infix of the
\* lowercased text, and the empty set otherwise.
C3_JudgeRule ==
  (call.op = "judge" /\ call.error = "none")
    => \A i \in 1..Len(call.corpus) :
         call.result[i] =
           C3_Expected(keywords_[LabelToIndex(classes, call.y[i])], call.corpus[i])

\* C4: an item whose category has an empty relevant list and which holds a clash
\* keyword of it as a token gets those clash keywords as its result.
C4_EmptyRelevantNeverMatches ==
  (call.op = "judge" /\ call.error = "none")
    => \A i \in 1..Len(call.corpus) :
         LET kw == keywords_[LabelToIndex(classes, call.y[i])]
             hit == Analyze(call.corpus[i]) \cap Range(kw.clash)
         IN (kw.relevant = <<>> /\ hit # {}) => (call.result[i] = hit /\ hit # {})

\* The lines at which judge is about to read self.__classes or self.__keywords_.
JudgeReads ==
  \/ judger.pc \in {"l202", "l205", "l213"}
  \/ judger.pc = "l215" /\ judger.i <= Len(judger.corpus)

\* A fit is between its first write and its return.
FitWriting == fitter.pc \in {"l100", "l106", "l107"}

\* C5: whenever judge reads the model while a fit writes it, the category list
\* and the keyword table are together the state that fit found or the state it
\* leaves when it returns.
C5_JudgeSeesWholeState ==
  (JudgeReads /\ FitWriting)
    => \/ <<classes, keywords_>> = fitter.before
       \/ fitter.pc = "l107" /\ fitter.k > Len(classes)

\* C6 as stated: a judge with len(corpus) # len(labels) raises InvalidInput,
\* whatever the state and the labels, and leaves the state as it was.
C6_UnevenJudgeInvalidInput ==
  [][(Calls("judge") /\ Len(call'.corpus) # Len(call'.y))
       => (call'.error = "InvalidInput" /\ classes' = classes /\ keywords_' = keywords_)]_vars

\* C6 (amended): a judge with len(corpus) # len(labels) always raises and leaves
\* the state as it was; it raises UntrainedModel on a model without categories,
\* else UnrecognizedLabel when a label is unknown, else InvalidInput.
C6_UnevenJudgeRaises ==
  [][(Calls("judge") /\ Len(call'.corpus) # Len(call'.y))
       => /\ call'.error =
               IF classes = <<>> THEN "UntrainedModel"
               ELSE IF \E i \in 1..Len(call'.y) : call'.y[i] \notin Range(classes)
                    THEN "UnrecognizedLabel"
               ELSE "InvalidInput"
          /\ call'.result = <<>>
          /\ classes' = classes
          /\ keywords_' = keywords_]_vars

\* C6's case: an uneven judge with known labels on a model with keyword sets
\* has raised InvalidInput.
C6_Witness ==
  /\ call.op = "judge"
  /\ Len(call.corpus) # Len(call.y)
  /\ call.y # <<>>
  /\ call.error = "InvalidInput"
  /\ Len(keywords_) = Len(classes)

\* C7: on a model that never got keyword sets (no initial keywords, no fit that
\* returned), every judge raises UntrainedModel and returns nothing.
C7_UntrainedGuard ==
  (call.op = "judge" /\ ~trained)
    => (call.error = "UntrainedModel" /\ call.result = <<>>)

\* ------------------------------------------- the counts the claims speak of

\* All tokens of the corpus of the last call.
Vocabulary == UNION {Analyze(call.corpus[i]) : i \in 1..Len(call.corpus)}

\* in_count, out_count, |in-group| and |out-group| of token f for category c.
InCount(f, c) ==
  Cardinality({i \in 1..Len(call.y) : call.y[i] = c /\ f \in Analyze(call.corpus[i])})

OutCount(f, c) ==
  Cardinality({i \in 1..Len(call.y) : call.y[i] # c /\ f \in Analyze(call.corpus[i])})

InSize(c) == Cardinality({i \in 1..Len(call.y) : call.y[i] = c})

OutSize(c) == Cardinality({i \in 1..Len(call.y) : call.y[i] # c})

\* ratio > relevant_dominance and in_count >= relevant_tf x |in-group|.
PassesRelevant(f, c) ==
  /\ IF OutCount(f, c) = 0
     THEN Sentinel * cfg.relevant_dominance[2] > cfg.relevant_dominance[1]
     ELSE InCount(f, c) * OutSize(c) * cfg.relevant_dominance[2]
            > cfg.relevant_dominance[1] * OutCount(f, c) * InSize(c)
  /\ InCount(f, c) * cfg.relevant_tf[2] >= cfg.relevant_tf[1] * InSize(c)

\* inverse_ratio > clash_dominance, out_count >= clash_tf x |out-group| and
\* in_count < maximum_clash_in_relevant x |in-group|.
PassesClash(f, c) ==
  /\ IF OutCount(f, c) = 0
     THEN \* 1 / Sentinel > clash_dominance
          (cfg.clash_dominance[2] - 1) \div Sentinel >= cfg.clash_dominance[1]
     ELSE IF InCount(f, c) = 0
     THEN Sentinel * cfg.clash_dominance[2] > cfg.clash_dominance[1]
     ELSE OutCount(f, c) * InSize(c) * cfg.clash_dominance[2]
            > cfg.clash_dominance[1] * InCount(f, c) * OutSize(c)
  /\ OutCount(f, c) * cfg.clash_tf[2] >= cfg.clash_tf[1] * OutSize(c)
  /\ InCount(f, c) * cfg.maximum_clash_in_relevant[2]
       < cfg.maximum_clash_in_relevant[1] * InSize(c)

\* C8: after a fit that returned, no token is in both lists of a category, and a
\* token that passes the relevant test is in no clash list of that category.
C8_RelevantNeverClash ==
  FitReturned
    => \A k \in 1..Len(keywords_) :
         /\ Range(keywords_[k].relevant) \cap Range(keywords_[k].clash) = {}
         /\ \A f \in Vocabulary :
              PassesRelevant(f, classes[k]) => f \notin Range(keywords_[k].clash)

\* C8's case: a token passes the relevant test and all three clash thresholds,
\* and the fit put it in the relevant list.
C8_Witness ==
  /\ FitReturned
  /\ \E k \in 1..Len(keywords_) : \E f \in Vocabulary :
       /\ PassesRelevant(f, classes[k])
       /\ PassesClash(f, classes[k])
       /\ f \in Range(keywords_[k].relevant)

\* The judge errors C9 speaks of: what a judge of one text raises, after the
\* last call, under a label that was known before it and is not among its labels.
ForgottenRaises(error) ==
  \A label \in call.known \ LabelSet(call.y) : \A text \in Texts :
    JudgeError(classes, keywords_, <<text>>, <<label>>) = error

\* The state a returned fit leaves: the distinct labels of the call, one keyword
\* set each, every keyword a token of the call's corpus and every set one that
\* the call's corpus and labels give for its class.
ReplacedWholesale ==
  /\ Range(classes) = LabelSet(call.y)
  /\ Len(classes) = Cardinality(LabelSet(call.y))
  /\ Len(keywords_) = Len(classes)
  /\ \A k \in 1..Len(keywords_) :
       /\ Range(keywords_[k].relevant) \cup Range(keywords_[k].clash)
            \subseteq UNION {Analyze(call.corpus[i]) : i \in 1..Len(call.corpus)}
       /\ keywords_[k] \in SortedKeywords(cfg, Tokens(call.corpus), call.y, classes[k])

\* C9 as stated: a fit that returned leaves exactly the labels of the call, each
\* with one keyword set made from the call's corpus, and judge raises
\* UnrecognizedLabel for every label known only before.
C9_ReplacedAndUnrecognized ==
  FitReturned => (ReplacedWholesale /\ ForgottenRaises("UnrecognizedLabel"))

\* C9 (amended): the same, except that after a fit of an empty corpus, which
\* leaves no category at all, judge raises UntrainedModel instead.
C9_ReplacedAndForgotten ==
  FitReturned
    => /\ ReplacedWholesale
       /\ ForgottenRaises(IF call.y = <<>> THEN "UntrainedModel"
                          ELSE "UnrecognizedLabel")

\* C9's case: a fit of a non-empty corpus has returned on a model that knew a
\* category the call does not name, and that category is gone.
C9_Witness ==
  /\ FitReturned
  /\ call.y # <<>>
  /\ call.known \ LabelSet(call.y) # {}
  /\ Range(classes) = LabelSet(call.y)

\* No list of the last fit was cut: n_relevant and n_clash are at least the
\* size of the vocabulary.
NoTruncation ==
  /\ cfg.n_relevant >= Cardinality(Vocabulary)
  /\ cfg.n_clash >= Cardinality(Vocabulary)

\* C10: after a fit that returned and cut no list, a token is in a category's
\* relevant list exactly when it passes the relevant test, and in its clash list
\* exactly when it fails the relevant test and passes the three clash tests.
C10_Classification ==
  (FitReturned /\ NoTruncation)
    => \A k \in 1..Len(keywords_) : \A f \in Vocabulary :
         /\ f \in Range(keywords_[k].relevant) <=> PassesRelevant(f, classes[k])
         /\ f \in Range(keywords_[k].clash)
              <=> (~PassesRelevant(f, classes[k]) /\ PassesClash(f, classes[k]))

\* C10's case: uncut lists in which a token seen in both groups is relevant for
\* one category and a token seen in both groups is clash for one.
C10_Witness ==
  /\ FitReturned
  /\ NoTruncation
  /\ \E k \in 1..Len(keywords_) : \E f \in Range(keywords_[k].relevant) :
       InCount(f, classes[k]) > 0 /\ OutCount(f, classes[k]) > 0
  /\ \E k \in 1..Len(keywords_) : \E f \in Range(keywords_[k].clash) :
       InCount(f, classes[k]) > 0 /\ OutCount(f, classes[k]) > 0

====
